---- MODULE Spec2Model ----
(***************************************************************************)
(* Model of the recommendation blending code of the Bangla Sahayata Kendra *)
(* service: the eligibility filter block_service, the per-anchor quota     *)
(* allocation (recs_per_service) and the two recommendation handlers of    *)
(* src/api/main.py, together with the duplicated copies of the same logic  *)
(* in src/frontend/streamlit_app.py.                                       *)
(***************************************************************************)
EXTENDS Integers, Sequences, FiniteSets, TLC

(***************************************************************************)
(* Python values.  A value is a record with its type name and, for a str,  *)
(* its characters.  NaN is what pandas yields for a missing CSV cell.      *)
(***************************************************************************)
Str(chars) == [t |-> "str", s |-> chars]
PyNone == [t |-> "NoneType", s |-> <<>>]
PyNaN == [t |-> "float", s |-> <<>>]
PyInt == [t |-> "int", s |-> <<>>]

isinstance_str(v) == v.t = "str"

\* bool(v) as Python evaluates it in `if caste and ...`: None and "" are
\* falsy, NaN is a non-zero float and therefore truthy.
truthy(v) ==
    CASE v.t = "NoneType" -> FALSE
      [] v.t = "str" -> Len(v.s) > 0
      [] OTHER -> TRUE

UpperAlpha ==
    <<"A", "B", "C", "D", "E", "F", "G", "H", "I", "J", "K", "L", "M",
      "N", "O", "P", "Q", "R", "S", "T", "U", "V", "W", "X", "Y", "Z">>
LowerAlpha ==
    <<"a", "b", "c", "d", "e", "f", "g", "h", "i", "j", "k", "l", "m",
      "n", "o", "p", "q", "r", "s", "t", "u", "v", "w", "x", "y", "z">>

UpperLetters == {UpperAlpha[i] : i \in 1..26}

lower_char(c) ==
    IF c \in UpperLetters
    THEN LowerAlpha[CHOOSE i \in 1..26 : UpperAlpha[i] = c]
    ELSE c
upper_char(c) ==
    IF \E i \in 1..26 : LowerAlpha[i] = c
    THEN UpperAlpha[CHOOSE i \in 1..26 : LowerAlpha[i] = c]
    ELSE c

\* str.lower()
lower(s) == [i \in 1..Len(s) |-> lower_char(s[i])]

\* `sub in s` on two str
contains(sub, s) ==
    \E i \in 0..(Len(s) - Len(sub)) : SubSeq(s, i + 1, i + Len(sub)) = sub

W_birth == <<"b", "i", "r", "t", "h">>
W_death == <<"d", "e", "a", "t", "h">>
W_caste == <<"c", "a", "s", "t", "e">>
W_general == <<"g", "e", "n", "e", "r", "a", "l">>

block_service_m_nocheck(service, caste) ==
    IF ~isinstance_str(service) THEN "AttributeError"
    ELSE LET s == lower(service.s) IN
         IF contains(W_birth, s) \/ contains(W_death, s) THEN "False"
         ELSE IF ~truthy(caste) THEN "True"
         ELSE IF ~isinstance_str(caste) THEN "AttributeError"
         ELSE IF lower(caste.s) = W_general /\ contains(W_caste, s) THEN "False"
         ELSE "True"

block_service_m_casesens(service, caste) ==
    IF ~isinstance_str(service) THEN "False"
    ELSE LET s == service.s IN
         IF contains(W_birth, s) \/ contains(W_death, s) THEN "False"
         ELSE IF ~truthy(caste) THEN "True"
         ELSE IF ~isinstance_str(caste) THEN "AttributeError"
         ELSE IF lower(caste.s) = W_general /\ contains(W_caste, s) THEN "False"
         ELSE "True"

block_service_m_castesens(service, caste) ==
    IF ~isinstance_str(service) THEN "False"
    ELSE LET s == lower(service.s) IN
         IF contains(W_birth, s) \/ contains(W_death, s) THEN "False"
         ELSE IF ~truthy(caste) THEN "True"
         ELSE IF ~isinstance_str(caste) THEN "AttributeError"
         ELSE IF caste.s = W_general /\ contains(W_caste, s) THEN "False"
         ELSE "True"

(***************************************************************************)
(* block_service of the API.  The outcome is "True" or "False", the        *)
(* returned boolean, or "AttributeError" when caste.lower() is evaluated   *)
(* on a truthy value that is not a str.                                    *)
(***************************************************************************)
block_service(service, caste) ==
    IF ~isinstance_str(service) THEN "False"
    ELSE LET s == lower(service.s) IN
         IF contains(W_birth, s) \/ contains(W_death, s) THEN "False"
         ELSE IF ~truthy(caste) THEN "True"
         ELSE IF ~isinstance_str(caste) THEN "AttributeError"
         ELSE IF lower(caste.s) = W_general /\ contains(W_caste, s) THEN "False"
         ELSE "True"

\* block_service nested in the by-phone branch of the Streamlit frontend:
\* the guard is `caste is not None`, not truthiness.
block_service_st_phone(service, caste) ==
    IF ~isinstance_str(service) THEN "False"
    ELSE LET s == lower(service.s) IN
         IF contains(W_birth, s) \/ contains(W_death, s) THEN "False"
         ELSE IF caste.t = "NoneType" THEN "True"
         ELSE IF ~isinstance_str(caste) THEN "AttributeError"
         ELSE IF lower(caste.s) = W_general /\ contains(W_caste, s) THEN "False"
         ELSE "True"

block_service_st_manual_m_noguard(service, caste) ==
    IF ~isinstance_str(service) THEN "False"
    ELSE LET s == lower(service.s) IN
         IF contains(W_birth, s) \/ contains(W_death, s) THEN "False"
         ELSE IF ~isinstance_str(caste) THEN "AttributeError"
         ELSE IF lower(caste.s) = W_general /\ contains(W_caste, s) THEN "False"
         ELSE "True"

\* block_service nested in the manual-entry branch of the Streamlit frontend.
block_service_st_manual(service, caste) ==
    IF ~isinstance_str(service) THEN "False"
    ELSE LET s == lower(service.s) IN
         IF contains(W_birth, s) \/ contains(W_death, s) THEN "False"
         ELSE IF caste.t = "NoneType" THEN "True"
         ELSE IF ~isinstance_str(caste) THEN "AttributeError"
         ELSE IF lower(caste.s) = W_general /\ contains(W_caste, s) THEN "False"
         ELSE "True"

(***************************************************************************)
(* Input pools for the eligibility filter.                                 *)
(***************************************************************************)
\* every spelling of word w in mixed letter case
CaseVariants(w) ==
    {[i \in 1..Len(w) |-> IF up[i] THEN upper_char(w[i]) ELSE w[i]] :
        up \in [1..Len(w) -> BOOLEAN]}

N_BirthCertificateIssuance ==
    <<"B", "i", "r", "t", "h", " ", "C", "e", "r", "t", "i", "f", "i", "c",
      "a", "t", "e", " ", "I", "s", "s", "u", "a", "n", "c", "e">>
N_ScStCasteCertificate ==
    <<"S", "C", "/", "S", "T", " ", "C", "a", "s", "t", "e", " ", "C", "e",
      "r", "t", "i", "f", "i", "c", "a", "t", "e">>
N_IncomeCertificate ==
    <<"I", "n", "c", "o", "m", "e", " ", "C", "e", "r", "t", "i", "f", "i",
      "c", "a", "t", "e">>
N_DeathCertificate ==
    <<"D", "E", "A", "T", "H", " ", "c", "e", "r", "t">>
N_CasteAtBirth ==
    <<"C", "a", "s", "t", "e", " ", "a", "t", " ", "b", "i", "r", "t", "h">>
N_Empty == <<>>

NameAffixes == {<<>>, <<"S", "C", "/", "S", "T", " ">>, <<" ", "I", "D">>}
NearMisses ==
    {<<"b", "i", "r", "t">>, <<"e", "a", "t", "h">>, <<"c", "a", "s", "t">>,
     <<"b", "i", "r", " ", "t", "h">>, <<"C", "A", "S", "T", "E", "S">>}
KeyWords ==
    CaseVariants(W_birth) \cup CaseVariants(W_death)
        \cup CaseVariants(W_caste) \cup NearMisses

FewNames ==
    {N_BirthCertificateIssuance, N_ScStCasteCertificate, N_IncomeCertificate,
     N_DeathCertificate, N_CasteAtBirth, N_Empty}
AllNames ==
    FewNames \cup {p \o k : p \in NameAffixes, k \in KeyWords}
             \cup {k \o p : p \in NameAffixes, k \in KeyWords}

NonStrings == {PyNone, PyNaN, PyInt}

C_SC == <<"S", "C">>
C_General == <<"G", "e", "n", "e", "r", "a", "l">>
FewCastes ==
    {PyNone, PyNaN, Str(<<>>), Str(C_General), Str(W_general), Str(C_SC)}
AllCastes ==
    FewCastes \cup {Str(g) : g \in CaseVariants(W_general)}
              \cup {Str(W_general \o <<" ">>), Str(<<"g", "e", "n">>)}

FilterInputs ==
    ({Str(n) : n \in AllNames} \cup NonStrings) \X FewCastes
        \cup ({Str(n) : n \in FewNames} \cup NonStrings) \X AllCastes

(***************************************************************************)
(* Quota allocation: the block that fills recs_per_service.                *)
(***************************************************************************)
\* request.selected_service_id is Optional[int]; NoneId stands for None.
NoneId == -1

\* `if selected_service_id` : None and 0 are falsy
truthy_id(sid) == sid /= NoneId /\ sid /= 0

Range(seq) == {seq[i] : i \in 1..Len(seq)}
EmptyDict == [k \in {} |-> 0]
min(a, b) == IF a < b THEN a ELSE b

\* position whose assignment a dict keeps for key sid: the last one
LastIndex(seq, sid) ==
    CHOOSE i \in 1..Len(seq) :
        seq[i] = sid /\ \A j \in (i + 1)..Len(seq) : seq[j] /= sid

base_extra_loop_m_noextra(seq, amount) ==
    [sid \in Range(seq) |-> amount \div Len(seq)]

base_extra_loop_m_last(seq, amount) ==
    LET n == Len(seq)
        base == amount \div n
        extra == amount % n
    IN  [sid \in Range(seq) |->
            base + (IF LastIndex(seq, sid) > n - extra THEN 1 ELSE 0)]

base_extra_loop_m_clamp(seq, amount) ==
    LET n == Len(seq)
        amt == IF amount < 0 THEN 0 ELSE amount
        base == amt \div n
        extra == amt % n
    IN  [sid \in Range(seq) |->
            base + (IF LastIndex(seq, sid) - 1 < extra THEN 1 ELSE 0)]

\* base = amount // n; extra = amount % n;
\* for i, sid in enumerate(seq): recs_per_service[sid] = base + (1 if i < extra else 0)
base_extra_loop(seq, amount) ==
    LET n == Len(seq)
        base == amount \div n
        extra == amount % n
    IN  [sid \in Range(seq) |->
            base + (IF LastIndex(seq, sid) - 1 < extra THEN 1 ELSE 0)]

\* other_services = [sid for sid in item_service_ids if sid != selected_service_id]
other_services(item_service_ids, selected_service_id) ==
    SelectSeq(item_service_ids, LAMBDA sid : sid /= selected_service_id)

primary_share_m_nocap(max_total_recs) == 3

\* quota given to the selected service when it is an anchor
primary_share(max_total_recs) == min(3, max_total_recs)

\* recs_per_service as computed by recommend_by_phone
recs_per_service(item_service_ids, selected_service_id, max_total_recs) ==
    LET n_services == Len(item_service_ids) IN
    IF n_services > 0
    THEN IF truthy_id(selected_service_id)
            /\ selected_service_id \in Range(item_service_ids)
         THEN LET first == primary_share(max_total_recs)
                  remaining_recs == max_total_recs - first
                  others == other_services(item_service_ids, selected_service_id)
              IN  IF Len(others) > 0
                  THEN (selected_service_id :> first)
                           @@ base_extra_loop(others, remaining_recs)
                  ELSE (selected_service_id :> first)
         ELSE base_extra_loop(item_service_ids, max_total_recs)
    ELSE EmptyDict

\* recs_per_service as computed by the by-phone branch of the frontend
recs_per_service_st_phone(item_service_ids, selected_service_id, max_total_recs) ==
    LET n_services == Len(item_service_ids) IN
    IF n_services > 0
    THEN IF truthy_id(selected_service_id)
            /\ selected_service_id \in Range(item_service_ids)
         THEN LET first == min(3, max_total_recs)
                  remaining_recs == max_total_recs - first
                  others == SelectSeq(item_service_ids,
                                      LAMBDA sid : sid /= selected_service_id)
              IN  IF Len(others) > 0
                  THEN (selected_service_id :> first)
                           @@ base_extra_loop(others, remaining_recs)
                  ELSE (selected_service_id :> first)
         ELSE base_extra_loop(item_service_ids, max_total_recs)
    ELSE EmptyDict

\* item_service_ids = [selected_service_id] if selected_service_id else []
item_service_ids_st_manual(selected_service_id) ==
    IF truthy_id(selected_service_id) THEN <<selected_service_id>> ELSE <<>>

\* recs_per_service of the manual-entry branch of the frontend:
\* min(3, max_total_recs), then `+= remaining_recs`
recs_per_service_st_manual(selected_service_id, max_total_recs) ==
    IF Len(item_service_ids_st_manual(selected_service_id)) > 0
    THEN LET first == min(3, max_total_recs)
             remaining_recs == max_total_recs - first
         IN  (selected_service_id :> first + remaining_recs)
    ELSE EmptyDict

RECURSIVE SumOver(_, _)
SumOver(f, keys) ==
    IF keys = {} THEN 0
    ELSE LET k == CHOOSE x \in keys : TRUE
         IN  f[k] + SumOver(f, keys \ {k})
\* sum(recs_per_service.values())
SumQuota(q) == SumOver(q, DOMAIN q)

(***************************************************************************)
(* Input pools for the allocation.                                         *)
(***************************************************************************)
MaxId == 4
MaxAnchors == 4
MaxNegBudget == 2
MaxBudget == 6

ServiceIds == 0..MaxId
UniqueSeqs(ids, maxlen) ==
    UNION {{q \in [1..n -> ids] : \A i, j \in 1..n : i /= j => q[i] /= q[j]} :
              n \in 0..maxlen}
\* a negative id: selected_service_id is any int of the request body
NegId == -3
ScenarioAnchors == {<<101, 102, 103>>, <<201, 202>>, <<NegId>>, <<1, NegId>>}
AnchorSeqs == UniqueSeqs(ServiceIds, MaxAnchors) \cup ScenarioAnchors
Primaries == {NoneId} \cup ServiceIds \cup {102, NegId}
Budgets == (0 - MaxNegBudget)..MaxBudget

VARIABLES
    a_items,        \* anchor sequence handed to the allocation
    a_selected,     \* the selected service id (the primary), or NoneId
    a_budget,       \* max_total_recs
    a_result        \* per copy of the allocation: status and quota mapping

alloc_vars == <<a_items, a_selected, a_budget, a_result>>

AllocCopies == {"api", "st_phone", "st_manual"}
Unset == [status |-> "unset", quota |-> EmptyDict]
Returned(q) == [status |-> "returned", quota |-> q]

AllocInit ==
    /\ a_items \in AnchorSeqs
    /\ a_selected \in Primaries
    /\ a_budget \in Budgets
    /\ a_result = [c \in AllocCopies |-> Unset]

AllocIdle ==
    /\ a_items = <<>>
    /\ a_selected = NoneId
    /\ a_budget = 0
    /\ a_result = [c \in AllocCopies |-> Unset]

\* lines 290-309 run to completion: no statement in them raises
Allocate ==
    /\ a_result["api"].status = "unset"
    /\ a_result' = [a_result EXCEPT
          !["api"] = Returned(recs_per_service(a_items, a_selected, a_budget))]
    /\ UNCHANGED <<a_items, a_selected, a_budget>>

AllocateStPhone ==
    /\ a_result["st_phone"].status = "unset"
    /\ a_result' = [a_result EXCEPT
          !["st_phone"] =
              Returned(recs_per_service_st_phone(a_items, a_selected, a_budget))]
    /\ UNCHANGED <<a_items, a_selected, a_budget>>

AllocateStManual ==
    /\ a_result["st_manual"].status = "unset"
    /\ a_result' = [a_result EXCEPT
          !["st_manual"] =
              Returned(recs_per_service_st_manual(a_selected, a_budget))]
    /\ UNCHANGED <<a_items, a_selected, a_budget>>

AllocNext ==
    \/ Allocate
    \/ AllocateStPhone
    \/ AllocateStManual

VARIABLES
    f_service,      \* the service argument of the filter call under study
    f_caste,        \* its caste argument
    f_result        \* outcome per copy of block_service, "unset" before the call

filter_vars == <<f_service, f_caste, f_result>>

FilterCopies == {"api", "st_phone", "st_manual"}

FilterInit ==
    /\ \E in \in FilterInputs : f_service = in[1] /\ f_caste = in[2]
    /\ f_result = [c \in FilterCopies |-> "unset"]

CallBlockService ==
    /\ f_result["api"] = "unset"
    /\ f_result' = [f_result EXCEPT !["api"] = block_service(f_service, f_caste)]
    /\ UNCHANGED <<f_service, f_caste>>

CallBlockServiceStPhone ==
    /\ f_result["st_phone"] = "unset"
    /\ f_result' = [f_result EXCEPT
                      !["st_phone"] = block_service_st_phone(f_service, f_caste)]
    /\ UNCHANGED <<f_service, f_caste>>

CallBlockServiceStManual ==
    /\ f_result["st_manual"] = "unset"
    /\ f_result' = [f_result EXCEPT
                      !["st_manual"] = block_service_st_manual(f_service, f_caste)]
    /\ UNCHANGED <<f_service, f_caste>>

FilterNext ==
    \/ CallBlockService
    \/ CallBlockServiceStPhone
    \/ CallBlockServiceStManual

FilterIdle ==
    /\ f_service = PyNone
    /\ f_caste = PyNone
    /\ f_result = [c \in FilterCopies |-> "unset"]

(***************************************************************************)
(* The recommendation handlers.                                            *)
(***************************************************************************)
max_total_recs == 5
TopN == 5

ManualCount_m_capped == min(3, max_total_recs)

\* the count recommend_by_manual_entry asks the content lookup for
ManualCount == 5

\* a display name read from a CSV file
Name(text) == [text |-> text, num |-> NoneId]
\* f"Service {sid}"; the CSV name "Service 3" is the same value as the label
\* built for id 3
ServiceLabel(sid) == [text |-> "Service ", num |-> sid]
\* services_df['service_name'] of the citizen's history row for sid
HistoryName(sid) == [text |-> "history name of", num |-> sid]
\* service_master_df['service_name'] of the services.csv row for sid
MasterName(sid) == [text |-> "service master name of", num |-> sid]
NoName == [text |-> "None", num |-> NoneId]

\* what a strategy call produced: a list, or an exception
Ok(list) == [st |-> "ok", val |-> list]
Raised == [st |-> "raise", val |-> <<>>]
NotCalled == [st |-> "none", val |-> <<>>]

\* the copy of block_service the handler of flow f uses
Blocker(f, service, caste) ==
    IF f = "st_manual" THEN block_service_st_manual(service, caste)
    ELSE IF f = "st_phone" THEN block_service_st_phone(service, caste)
    ELSE block_service(service, caste)

filter_plain_m_nofilter(list, caste, f) == Ok(list)

filter_plain_m_skipnext(list, caste, f) ==
    IF \E i \in 1..Len(list) : Blocker(f, list[i], caste) = "AttributeError"
    THEN Raised
    ELSE LET keep(i) ==
                 \/ Blocker(f, list[i], caste) = "True"
                 \/ i > 1 /\ Blocker(f, list[i - 1], caste) = "False"
             RECURSIVE kept(_)
             kept(i) ==
                 IF i = 0 THEN <<>>
                 ELSE IF keep(i) THEN Append(kept(i - 1), list[i])
                 ELSE kept(i - 1)
         IN  Ok(kept(Len(list)))

\* [s for s in list if block_service(s, caste)]
filter_plain(list, caste, f) ==
    IF \E i \in 1..Len(list) : Blocker(f, list[i], caste) = "AttributeError"
    THEN Raised
    ELSE Ok(SelectSeq(list, LAMBDA s : Blocker(f, s, caste) = "True"))

filter_checked_m_nofilter(list, caste, f) == Ok(list)

\* [s for s in list if isinstance(s, str) and block_service(s, caste)]
filter_checked(list, caste, f) ==
    IF \E i \in 1..Len(list) :
          isinstance_str(list[i])
              /\ Blocker(f, list[i], caste) = "AttributeError"
    THEN Raised
    ELSE Ok(SelectSeq(list,
                LAMBDA s : isinstance_str(s) /\ Blocker(f, s, caste) = "True"))

\* list[:k]
Take(list, k) == SubSeq(list, 1, min(k, Len(list)))

filter_then_take_m_takefirst(list, caste, f) ==
    filter_plain(Take(list, TopN), caste, f)

\* [s for s in recs if block_service(s, caste)][:5]
filter_then_take(list, caste, f) ==
    LET filtered == filter_plain(list, caste, f)
    IN  IF filtered.st = "raise" THEN Raised
        ELSE Ok(Take(filtered.val, TopN))

\* list(used_service_ids) + ([selected_service_id] if selected_service_id
\*      and selected_service_id not in used_service_ids else [])
build_item_service_ids(used, selected) ==
    used \o (IF truthy_id(selected) /\ selected \notin Range(used)
             THEN <<selected>> ELSE <<>>)

\* dict assignment content_recs[key] = list
DictSet(d, key, val) ==
    [k \in DOMAIN d \cup {key} |-> IF k = key THEN val ELSE d[k]]

\* if num_similar_services <= 0: continue
skip_lookup(num) == num <= 0

store_filtered_similar_m_reset(d, key, ret, filtered) ==
    IF ret.st = "ok" /\ filtered.st = "ok" /\ Len(filtered.val) > 0
    THEN DictSet(d, key, filtered.val)
    ELSE IF ret.st = "raise" THEN EmptyDict ELSE d

\* if filtered_similar: content_recs[service_name] = filtered_similar; an
\* exception of the lookup or of the filter leaves the dict as it was
store_filtered_similar(d, key, ret, filtered) ==
    IF ret.st = "ok" /\ filtered.st = "ok" /\ Len(filtered.val) > 0
    THEN DictSet(d, key, filtered.val)
    ELSE d

service_name_of_m_labelonly(sid, index) == ServiceLabel(sid)

\* service_id_to_name[sid] if sid in service_id_to_name else f"Service {sid}"
service_name_of(sid, index) ==
    IF sid \in DOMAIN index THEN index[sid] ELSE ServiceLabel(sid)

\* the heading of the by-phone branch of the frontend: the name of the
\* history row, else the name of the services.csv row (.iloc[0])
service_name_st_phone(sid, used) ==
    IF sid \in Range(used) THEN HistoryName(sid) ELSE MasterName(sid)

(***************************************************************************)
(* The list filters on their own: a list is filtered, and the result is    *)
(* filtered again with the same caste.                                     *)
(***************************************************************************)
MaxListLen == 3

ListNames ==
    {PyNaN, Str(N_BirthCertificateIssuance), Str(N_ScStCasteCertificate),
     Str(N_IncomeCertificate), Str(N_CasteAtBirth)}
ListInputs == UNION {[1..n -> ListNames] : n \in 0..MaxListLen}
ListKinds == {"plain", "checked"}

VARIABLES
    l_list,     \* the list handed to the filter
    l_caste,    \* the caste of the profile
    l_kind,     \* which of the two list comprehensions is applied
    l_once,     \* outcome of filtering l_list
    l_twice     \* outcome of filtering the list of l_once again

list_vars == <<l_list, l_caste, l_kind, l_once, l_twice>>

apply_filter(kind, list, caste) ==
    IF kind = "plain" THEN filter_plain(list, caste, "phone")
    ELSE filter_checked(list, caste, "phone")

ListInit ==
    /\ l_list \in ListInputs
    /\ l_caste \in FewCastes
    /\ l_kind \in ListKinds
    /\ l_once = NotCalled
    /\ l_twice = NotCalled

ListIdle ==
    /\ l_list = <<>>
    /\ l_caste = PyNone
    /\ l_kind = "plain"
    /\ l_once = NotCalled
    /\ l_twice = NotCalled

FilterOnce ==
    /\ l_once = NotCalled
    /\ l_once' = apply_filter(l_kind, l_list, l_caste)
    /\ UNCHANGED <<l_list, l_caste, l_kind, l_twice>>

FilterAgain ==
    /\ l_once.st = "ok"
    /\ l_twice = NotCalled
    /\ l_twice' = apply_filter(l_kind, l_once.val, l_caste)
    /\ UNCHANGED <<l_list, l_caste, l_kind, l_once>>

ListNext ==
    \/ FilterOnce
    \/ FilterAgain

(***************************************************************************)
(* Input pools for the handlers.                                           *)
(***************************************************************************)
MaxUsed == 3

P1 == Str(<<"P", "1">>)
P2 == Str(<<"P", "2">>)
P3 == Str(<<"P", "3">>)
P4 == Str(<<"P", "4">>)
P5 == Str(<<"P", "5">>)
P6 == Str(<<"P", "6">>)

R_mixed ==
    <<Str(N_BirthCertificateIssuance), PyNaN, Str(N_ScStCasteCertificate),
      Str(N_IncomeCertificate)>>
R_long ==
    <<Str(N_DeathCertificate), P1, PyNaN, Str(N_ScStCasteCertificate), P2, P3,
      P4, P5, P6>>
R_blocked == <<Str(N_CasteAtBirth), PyNone>>

DistrictReturns == {R_blocked, R_mixed, R_long}
DemoReturns == {R_blocked, R_mixed}
ContentReturns == {R_blocked, R_long}

\* ids of the services of the catalogue; 0 is a legal id
ReqIds == {0, 1, 2}
UsedSeqs == UniqueSeqs(ReqIds, MaxUsed)
SelectedIds == {NoneId, NegId} \cup ReqIds
PhoneCastes == {PyNone, PyNaN, Str(C_General)}
\* the by-phone branch of the frontend: at most one used service, and a
\* selected service out of services.csv
StPhoneUsed == {u \in UsedSeqs : Len(u) <= 1}
StPhoneSelected == {NoneId} \cup ReqIds
ManualCastes == {Str(C_General), Str(C_SC), Str(<<>>)}

IndexChoices ==
    {(1 :> Name("Income Certificate")) @@ (2 :> Name("Ration Card")),
     (0 :> Name("Income Certificate")) @@ (1 :> Name("Income Certificate"))
         @@ (2 :> ServiceLabel(3))}

VARIABLES
    service_id_to_name,     \* the name index loaded at startup
    provision_data,         \* the provision table loaded at startup
    pc,                     \* position of the request being served
    flow,                   \* which handler is serving it
    response,               \* what the handler answered
    user_caste,             \* caste of the profile
    used_service_ids,       \* ids of the citizen's history, most recent first
    selected_service_id,    \* the selected service of the request
    item_service_ids,       \* the anchor sequence
    recs,                   \* the dict recs_per_service
    district_raw,           \* what the district lookup produced
    district_recs,
    searched_service_name,  \* hint handed to the demographic lookup
    demo_raw,               \* what the demographic lookup produced
    demo_recs,
    loop_i,                 \* next position of the content loop
    content_calls,          \* (service id, count) of each content lookup made
    content_raw,            \* what each content lookup produced, by service id
    content_recs

req_vars ==
    <<service_id_to_name, provision_data, pc, flow, response, user_caste, used_service_ids,
      selected_service_id, item_service_ids, recs, district_raw,
      district_recs, searched_service_name, demo_raw, demo_recs, loop_i,
      content_calls, content_raw, content_recs>>

\* pd.read_csv(ml_provision.csv): the table, with the dtype of its
\* service_id column
LoadedProvision == [rows |-> "ml_provision.csv", service_id |-> "float64"]

provision_after_get_services_used_m_inplace(table) ==
    [table EXCEPT !.service_id = "int64"]

\* the global provision_data after get_services_used: df is the copy a
\* boolean mask gives, so df['service_id'] = df['service_id'].astype(int)
\* writes to the copy
provision_after_get_services_used(table) == table

\* values of the request-scoped variables between two requests
Cleared ==
    /\ pc = "idle"
    /\ flow = "none"
    /\ response = "none"
    /\ user_caste = PyNone
    /\ used_service_ids = <<>>
    /\ selected_service_id = NoneId
    /\ item_service_ids = <<>>
    /\ recs = EmptyDict
    /\ district_raw = NotCalled
    /\ district_recs = <<>>
    /\ searched_service_name = NoName
    /\ demo_raw = NotCalled
    /\ demo_recs = <<>>
    /\ loop_i = 0
    /\ content_calls = <<>>
    /\ content_raw = EmptyDict
    /\ content_recs = EmptyDict

\* lifespan: the index is dict(zip(service_id, service_name))
ReqInit ==
    /\ service_id_to_name \in IndexChoices
    /\ provision_data = LoadedProvision
    /\ Cleared

ReqIdle ==
    /\ service_id_to_name = EmptyDict
    /\ provision_data = LoadedProvision
    /\ Cleared

\* recommend_by_phone up to the district lookup: citizen row, history,
\* anchors, quotas, int(citizen_row["district_id"])
ReceivePhone ==
    /\ pc = "idle"
    /\ \E found \in BOOLEAN, district_missing \in BOOLEAN,
          caste \in PhoneCastes, used \in UsedSeqs, selected \in SelectedIds :
        IF ~found
        THEN /\ pc' = "done"
             /\ flow' = "phone"
             /\ response' = "http404"
             /\ UNCHANGED <<user_caste, used_service_ids, selected_service_id,
                            item_service_ids, recs, provision_data>>
        ELSE /\ flow' = "phone"
             /\ provision_data' =
                    provision_after_get_services_used(provision_data)
             /\ user_caste' = caste
             /\ used_service_ids' = used
             /\ selected_service_id' = selected
             /\ item_service_ids' = build_item_service_ids(used, selected)
             /\ recs' = recs_per_service(build_item_service_ids(used, selected),
                                         selected, max_total_recs)
             /\ IF district_missing
                THEN pc' = "done" /\ response' = "http500"
                ELSE pc' = "district" /\ response' = "none"
    /\ UNCHANGED <<service_id_to_name, district_raw, district_recs,
                   searched_service_name, demo_raw, demo_recs, loop_i,
                   content_calls, content_raw, content_recs>>

\* recommend_by_manual_entry up to the district lookup
ReceiveManual ==
    /\ pc = "idle"
    /\ \E caste \in ManualCastes, selected \in SelectedIds \ {NoneId} :
        /\ flow' = "manual"
        /\ user_caste' = caste
        /\ selected_service_id' = selected
    /\ pc' = "district"
    /\ UNCHANGED <<service_id_to_name, provision_data, response, used_service_ids,
                   item_service_ids, recs, district_raw, district_recs,
                   searched_service_name, demo_raw, demo_recs, loop_i,
                   content_calls, content_raw, content_recs>>

\* the Recommend button of the manual-entry branch of the frontend
ReceiveStManual ==
    /\ pc = "idle"
    /\ \E caste \in ManualCastes \ {Str(<<>>)},
          selected \in (SelectedIds \ {NegId}) :
        /\ flow' = "st_manual"
        /\ user_caste' = caste
        /\ selected_service_id' = selected
        /\ item_service_ids' = item_service_ids_st_manual(selected)
        /\ recs' = recs_per_service_st_manual(selected, max_total_recs)
    /\ pc' = "district"
    /\ UNCHANGED <<service_id_to_name, provision_data, response, used_service_ids,
                   district_raw, district_recs, searched_service_name,
                   demo_raw, demo_recs, loop_i, content_calls, content_raw,
                   content_recs>>

\* the Recommend button of the by-phone branch of the frontend, up to the
\* district lookup; the selected service is an entry of the select box
ReceiveStPhone ==
    /\ pc = "idle"
    /\ \E district_missing \in BOOLEAN, caste \in PhoneCastes,
          used \in StPhoneUsed, selected \in StPhoneSelected :
        /\ flow' = "st_phone"
        /\ user_caste' = caste
        /\ used_service_ids' = used
        /\ selected_service_id' = selected
        /\ item_service_ids' = build_item_service_ids(used, selected)
        /\ recs' = recs_per_service_st_phone(
                       build_item_service_ids(used, selected), selected,
                       max_total_recs)
        /\ IF district_missing
           THEN pc' = "done" /\ response' = "http500"
           ELSE pc' = "district" /\ response' = "none"
    /\ UNCHANGED <<service_id_to_name, provision_data, district_raw, district_recs,
                   searched_service_name, demo_raw, demo_recs, loop_i,
                   content_calls, content_raw, content_recs>>

\* get_top_services_for_district_from_csv(..., top_n=5), then
\* [s for s in district_recs if block_service(s, caste)][:5]; nothing here
\* is inside a try
CallDistrict ==
    /\ pc = "district"
    /\ \E ret \in {Ok(r) : r \in DistrictReturns} \cup {Raised} :
        LET filtered ==
                filter_then_take(ret.val, user_caste, flow)
        IN  /\ district_raw' = ret
            /\ IF ret.st = "raise" \/ filtered.st = "raise"
               THEN /\ pc' = "done"
                    /\ response' = "http500"
                    /\ UNCHANGED district_recs
               ELSE /\ pc' = "demo"
                    /\ district_recs' = filtered.val
                    /\ UNCHANGED response
    /\ UNCHANGED <<service_id_to_name, provision_data, flow, user_caste, used_service_ids,
                   selected_service_id, item_service_ids, recs,
                   searched_service_name, demo_raw, demo_recs, loop_i,
                   content_calls, content_raw, content_recs>>

resolve_searched_service_name_m_indexfirst(f, items, used, selected, index) ==
    IF f = "phone"
    THEN IF Len(items) > 0
         THEN IF items[1] \in DOMAIN index THEN index[items[1]]
              ELSE IF items[1] \in Range(used) THEN HistoryName(items[1])
              ELSE NoName
         ELSE NoName
    ELSE IF f = "manual"
    THEN IF truthy_id(selected) /\ selected \in DOMAIN index
         THEN index[selected] ELSE NoName
    ELSE IF f = "st_phone"
    THEN IF Len(items) > 0
         THEN IF items[1] \in Range(used) THEN HistoryName(items[1])
              ELSE MasterName(items[1])
         ELSE NoName
    ELSE IF truthy_id(selected) THEN Name("service master name") ELSE NoName

resolve_searched_service_name_m_selected(f, items, used, selected, index) ==
    IF f = "phone"
    THEN IF Len(items) > 0
         THEN IF items[1] \in Range(used) THEN HistoryName(items[1])
              ELSE IF items[1] \in DOMAIN index THEN index[items[1]]
              ELSE NoName
         ELSE IF selected \in DOMAIN index THEN index[selected]
         ELSE NoName
    ELSE IF f = "manual"
    THEN IF truthy_id(selected) /\ selected \in DOMAIN index
         THEN index[selected] ELSE NoName
    ELSE IF f = "st_phone"
    THEN IF Len(items) > 0
         THEN IF items[1] \in Range(used) THEN HistoryName(items[1])
              ELSE MasterName(items[1])
         ELSE NoName
    ELSE IF truthy_id(selected) THEN Name("service master name") ELSE NoName

\* the searched service name each handler resolves before the lookup
resolve_searched_service_name(f, items, used, selected, index) ==
    IF f = "phone"
    THEN IF Len(items) > 0
         THEN IF items[1] \in Range(used) THEN HistoryName(items[1])
              ELSE IF items[1] \in DOMAIN index THEN index[items[1]]
              ELSE NoName
         ELSE NoName
    ELSE IF f = "manual"
    THEN IF truthy_id(selected) /\ selected \in DOMAIN index
         THEN index[selected] ELSE NoName
    ELSE IF f = "st_phone"
    THEN IF Len(items) > 0
         THEN IF items[1] \in Range(used) THEN HistoryName(items[1])
              ELSE MasterName(items[1])
         ELSE NoName
    ELSE IF truthy_id(selected) THEN Name("service master name") ELSE NoName

\* the try block around recommend_services_2 and its filter
CallDemo ==
    /\ pc = "demo"
    /\ searched_service_name' =
           resolve_searched_service_name(flow, item_service_ids,
               used_service_ids, selected_service_id, service_id_to_name)
    /\ \E ret \in {Ok(r) : r \in DemoReturns} \cup {Raised} :
        LET filtered ==
                filter_checked(ret.val, user_caste, flow)
        IN  /\ demo_raw' = ret
            /\ demo_recs' = IF ret.st = "raise" \/ filtered.st = "raise"
                            THEN <<>> ELSE filtered.val
    /\ pc' = "content"
    /\ loop_i' = 1
    /\ UNCHANGED <<service_id_to_name, provision_data, flow, response, user_caste,
                   used_service_ids, selected_service_id, item_service_ids,
                   recs, district_raw, district_recs, content_calls,
                   content_raw, content_recs>>

\* recs_per_service.get(sid, 0)
DictGet(d, key, default) == IF key \in DOMAIN d THEN d[key] ELSE default

\* one iteration of `for sid in item_service_ids` of recommend_by_phone
PhoneContentStep ==
    /\ pc = "content" /\ flow = "phone"
    /\ loop_i <= Len(item_service_ids)
    /\ LET sid == item_service_ids[loop_i]
           num_similar_services == DictGet(recs, sid, 0)
       IN  IF skip_lookup(num_similar_services)
           THEN UNCHANGED <<content_calls, content_raw, content_recs>>
           ELSE \E ret \in {Ok(r) : r \in ContentReturns} \cup {Raised} :
                  LET service_name == service_name_of(sid, service_id_to_name)
                      filtered_similar ==
                          filter_checked(ret.val, user_caste, flow)
                  IN  /\ content_calls' =
                             Append(content_calls,
                                    [sid |-> sid, n |-> num_similar_services])
                      /\ content_raw' = DictSet(content_raw, sid, ret)
                      /\ content_recs' =
                             store_filtered_similar(content_recs,
                                 service_name, ret, filtered_similar)
    /\ loop_i' = loop_i + 1
    /\ UNCHANGED <<service_id_to_name, provision_data, pc, flow, response, user_caste,
                   used_service_ids, selected_service_id, item_service_ids,
                   recs, district_raw, district_recs, searched_service_name,
                   demo_raw, demo_recs>>

\* one iteration of `for sid in item_service_ids` of the by-phone branch of
\* the frontend; a list is rendered under the service name when it is not
\* empty
StPhoneContentStep ==
    /\ pc = "content" /\ flow = "st_phone"
    /\ loop_i <= Len(item_service_ids)
    /\ LET sid == item_service_ids[loop_i]
           num_similar_services == DictGet(recs, sid, 0)
       IN  IF skip_lookup(num_similar_services)
           THEN UNCHANGED <<content_calls, content_raw, content_recs>>
           ELSE \E ret \in {Ok(r) : r \in ContentReturns} \cup {Raised} :
                  LET filtered_similar_services ==
                          filter_checked(ret.val, user_caste, flow)
                      service_name ==
                          service_name_st_phone(sid, used_service_ids)
                  IN  /\ content_calls' =
                             Append(content_calls,
                                    [sid |-> sid, n |-> num_similar_services])
                      /\ content_raw' = DictSet(content_raw, sid, ret)
                      /\ content_recs' =
                             store_filtered_similar(content_recs,
                                 service_name, ret, filtered_similar_services)
    /\ loop_i' = loop_i + 1
    /\ UNCHANGED <<service_id_to_name, provision_data, pc, flow, response, user_caste,
                   used_service_ids, selected_service_id, item_service_ids,
                   recs, district_raw, district_recs, searched_service_name,
                   demo_raw, demo_recs>>

\* `if selected_service_id:` block of recommend_by_manual_entry, then the
\* response
ManualContent ==
    /\ pc = "content" /\ flow = "manual"
    /\ IF truthy_id(selected_service_id)
       THEN \E ret \in {Ok(r) : r \in ContentReturns} \cup {Raised} :
              LET service_name ==
                      service_name_of(selected_service_id, service_id_to_name)
                  filtered_similar ==
                      filter_checked(ret.val, user_caste, flow)
              IN  /\ content_calls' =
                         Append(content_calls,
                                [sid |-> selected_service_id, n |-> ManualCount])
                  /\ content_raw' =
                         DictSet(content_raw, selected_service_id, ret)
                  /\ content_recs' =
                         store_filtered_similar(content_recs, service_name,
                                                ret, filtered_similar)
       ELSE UNCHANGED <<content_calls, content_raw, content_recs>>
    /\ pc' = "done"
    /\ response' = "bundle"
    /\ UNCHANGED <<service_id_to_name, provision_data, flow, user_caste, used_service_ids,
                   selected_service_id, item_service_ids, recs, district_raw,
                   district_recs, searched_service_name, demo_raw, demo_recs,
                   loop_i>>

\* one iteration of `for sid in item_service_ids` of the manual-entry branch
\* of the frontend; the list is rendered under the service name even when
\* it is empty
StManualContentStep ==
    /\ pc = "content" /\ flow = "st_manual"
    /\ loop_i <= Len(item_service_ids)
    /\ LET sid == item_service_ids[loop_i]
           num_similar_services == DictGet(recs, sid, 0)
       IN  IF skip_lookup(num_similar_services)
           THEN UNCHANGED <<content_calls, content_raw, content_recs>>
           ELSE \E ret \in {Ok(r) : r \in ContentReturns} \cup {Raised} :
                  LET filtered_similar_services ==
                          filter_checked(ret.val, user_caste, flow)
                  IN  /\ content_calls' =
                             Append(content_calls,
                                    [sid |-> sid,
                                     n |-> min(num_similar_services, 5)])
                      /\ content_raw' = DictSet(content_raw, sid, ret)
                      /\ content_recs' =
                             IF ret.st = "ok"
                                /\ filtered_similar_services.st = "ok"
                             THEN DictSet(content_recs,
                                          Name("service master name"),
                                          filtered_similar_services.val)
                             ELSE content_recs
    /\ loop_i' = loop_i + 1
    /\ UNCHANGED <<service_id_to_name, provision_data, pc, flow, response, user_caste,
                   used_service_ids, selected_service_id, item_service_ids,
                   recs, district_raw, district_recs, searched_service_name,
                   demo_raw, demo_recs>>

\* the loop is over: return RecommendationResponse(...) or, in the
\* frontend, the end of the script run
Respond ==
    /\ pc = "content" /\ flow \in {"phone", "st_phone", "st_manual"}
    /\ loop_i > Len(item_service_ids)
    /\ pc' = "done"
    /\ response' = "bundle"
    /\ UNCHANGED <<service_id_to_name, provision_data, flow, user_caste, used_service_ids,
                   selected_service_id, item_service_ids, recs, district_raw,
                   district_recs, searched_service_name, demo_raw, demo_recs,
                   loop_i, content_calls, content_raw, content_recs>>

\* GET /api/citizen/{citizen_id}/services
GetCitizenServices ==
    /\ pc = "idle"
    /\ provision_data' = provision_after_get_services_used(provision_data)
    /\ pc' = "done"
    /\ flow' = "services"
    /\ response' = "services"
    /\ UNCHANGED <<service_id_to_name, user_caste, used_service_ids,
                   selected_service_id, item_service_ids, recs, district_raw,
                   district_recs, searched_service_name, demo_raw, demo_recs,
                   loop_i, content_calls, content_raw, content_recs>>

\* the request is over; every value of it is discarded
NextRequest ==
    /\ pc = "done"
    /\ pc' = "idle"
    /\ flow' = "none"
    /\ response' = "none"
    /\ user_caste' = PyNone
    /\ used_service_ids' = <<>>
    /\ selected_service_id' = NoneId
    /\ item_service_ids' = <<>>
    /\ recs' = EmptyDict
    /\ district_raw' = NotCalled
    /\ district_recs' = <<>>
    /\ searched_service_name' = NoName
    /\ demo_raw' = NotCalled
    /\ demo_recs' = <<>>
    /\ loop_i' = 0
    /\ content_calls' = <<>>
    /\ content_raw' = EmptyDict
    /\ content_recs' = EmptyDict
    /\ UNCHANGED <<service_id_to_name, provision_data>>

ReqNext ==
    \/ ReceivePhone
    \/ ReceiveManual
    \/ ReceiveStManual
    \/ ReceiveStPhone
    \/ CallDistrict
    \/ CallDemo
    \/ PhoneContentStep
    \/ ManualContent
    \/ StManualContentStep
    \/ StPhoneContentStep
    \/ GetCitizenServices
    \/ Respond
    \/ NextRequest

vars == <<filter_vars, alloc_vars, req_vars, list_vars>>

\* the eligibility filter on its own
FilterSpecInit == FilterInit /\ AllocIdle /\ ReqIdle /\ ListIdle
FilterSpecNext == FilterNext /\ UNCHANGED <<alloc_vars, req_vars, list_vars>>
FilterSpec == FilterSpecInit /\ [][FilterSpecNext]_vars

\* the allocation on its own
AllocSpecInit == AllocInit /\ FilterIdle /\ ReqIdle /\ ListIdle
AllocSpecNext == AllocNext /\ UNCHANGED <<filter_vars, req_vars, list_vars>>
AllocSpec == AllocSpecInit /\ [][AllocSpecNext]_vars

\* the list filters on their own
ListSpecInit == ListInit /\ FilterIdle /\ AllocIdle /\ ReqIdle
ListSpecNext == ListNext /\ UNCHANGED <<filter_vars, alloc_vars, req_vars>>
ListSpec == ListSpecInit /\ [][ListSpecNext]_vars

\* the handlers serving one request after another
Next == ReqNext /\ UNCHANGED <<filter_vars, alloc_vars, list_vars>>

Init == ReqInit /\ FilterIdle /\ AllocIdle /\ ListIdle

Spec == Init /\ [][Next]_vars
(***************************************************************************)
(* Properties of the allocation (checked under AllocSpec).                 *)
(***************************************************************************)
AllocDone(c) == a_result[c].status = "returned"
Quota(c) == a_result[c].quota
MaxOf(q) == CHOOSE m \in {q[k] : k \in DOMAIN q} : \A k \in DOMAIN q : q[k] <= m
MinOf(q) == CHOOSE m \in {q[k] : k \in DOMAIN q} : \A k \in DOMAIN q : q[k] >= m
\* the quota the base+remainder rule gives the i-th of n members
RuleShare(amount, n, i) == (amount \div n) + (IF i <= amount % n THEN 1 ELSE 0)

\* C1: for every anchor sequence, budget >= 0 and primary (absent, in the
\* anchors or not), each quota is a non-negative integer, the quotas sum to
\* at most the budget, and with budget 0 every quota is 0 (API and the
\* by-phone branch of the frontend).
C1_QuotaWithinBudget ==
    \A c \in {"api", "st_phone"} :
        (AllocDone(c) /\ a_budget >= 0) =>
            /\ \A k \in DOMAIN Quota(c) : Quota(c)[k] \in Nat
            /\ SumQuota(Quota(c)) <= a_budget
            /\ a_budget = 0 => \A k \in DOMAIN Quota(c) : Quota(c)[k] = 0

C1_Witness ==
    /\ AllocDone("api") /\ AllocDone("st_phone")
    /\ a_budget = 0
    /\ Len(a_items) = 3
    /\ truthy_id(a_selected) /\ a_selected \in Range(a_items)
    /\ DOMAIN Quota("api") = Range(a_items)

\* C2: with no primary, for every budget b >= 0 and n >= 1 anchors, every
\* anchor has a quota, the quotas sum to exactly b, the largest and smallest
\* differ by at most 1, and a single anchor receives the full budget.
C2_NoPrimaryExactSplit ==
    (AllocDone("api") /\ a_selected = NoneId /\ a_budget >= 0 /\ Len(a_items) >= 1) =>
        /\ DOMAIN Quota("api") = Range(a_items)
        /\ SumQuota(Quota("api")) = a_budget
        /\ MaxOf(Quota("api")) - MinOf(Quota("api")) <= 1
        /\ Len(a_items) = 1 => Quota("api")[a_items[1]] = a_budget

C2_Witness ==
    /\ AllocDone("api")
    /\ a_selected = NoneId
    /\ a_budget = 5
    /\ Len(a_items) = 3
    /\ SumQuota(Quota("api")) = 5

\* C3 (as claimed): when a primary is set and present in the anchors, its
\* quota is min(3, budget); the rest of the budget is fully distributed over
\* the other anchors, in their original order, by the base+remainder rule;
\* with no other anchor the leftover stays unused.
C3_PrimaryShare ==
    (AllocDone("api") /\ a_budget >= 0
        /\ a_selected /= NoneId /\ a_selected \in Range(a_items)) =>
        LET q == Quota("api")
            first == IF a_budget < 3 THEN a_budget ELSE 3
            others == SelectSeq(a_items, LAMBDA sid : sid /= a_selected)
        IN  /\ DOMAIN q = Range(a_items)
            /\ q[a_selected] = first
            /\ \A i \in 1..Len(others) :
                  q[others[i]] = RuleShare(a_budget - first, Len(others), i)
            /\ (a_items = <<101, 102, 103>> /\ a_budget = 5 /\ a_selected = 102)
                  => q = (102 :> 3) @@ (101 :> 1) @@ (103 :> 1)

\* The same statement restricted to a primary that Python treats as true
\* (any id but 0) does hold.
C3_HoldsForNonZeroPrimary ==
    a_selected /= 0 => C3_PrimaryShare

\* C4: the base+remainder rule is order-sensitive: with base = amount div n
\* and extra = amount mod n, exactly the first `extra` members of the
\* distributed group, in original sequence order, get base+1 and the later
\* ones get base; [201, 202] with budget 5 and no primary gives
\* {201: 3, 202: 2}.
C4_FirstExtraInOrder ==
    (AllocDone("api") /\ a_budget >= 0 /\ Len(a_items) >= 1) =>
        LET q == Quota("api")
            others == SelectSeq(a_items, LAMBDA sid : sid /= a_selected)
            first == IF a_budget < 3 THEN a_budget ELSE 3
        IN  /\ (a_selected = NoneId \/ a_selected \notin Range(a_items)) =>
                  \A i \in 1..Len(a_items) :
                      q[a_items[i]] = RuleShare(a_budget, Len(a_items), i)
            /\ (a_selected \in Range(a_items) /\ a_selected /= 0) =>
                  \A i \in 1..Len(others) :
                      q[others[i]] = RuleShare(a_budget - first, Len(others), i)
            /\ (a_items = <<201, 202>> /\ a_budget = 5 /\ a_selected = NoneId)
                  => q = (201 :> 3) @@ (202 :> 2)

C4_Witness ==
    /\ AllocDone("api")
    /\ a_items = <<201, 202>> /\ a_budget = 5 /\ a_selected = NoneId
    /\ Quota("api")[201] = 3 /\ Quota("api")[202] = 2

NegativeInput ==
    \/ a_budget < 0
    \/ \E i \in 1..Len(a_items) : a_items[i] < 0

\* C6 (as claimed): a negative budget or a negative anchor makes the
\* allocation fail with InvalidArgument and produce no quota mapping.
C6_NegativeRejected ==
    (a_result["api"].status /= "unset" /\ NegativeInput) =>
        /\ a_result["api"].status = "InvalidArgument"
        /\ a_result["api"].quota = EmptyDict

\* C6 (amended): the allocation validates nothing and never fails: for a
\* negative budget or a negative anchor id it still returns a quota for
\* every anchor, and with no primary and at least one anchor the quotas sum
\* to the budget given, negative ones included.
C6_NegativeNotRejected ==
    (a_result["api"].status /= "unset" /\ NegativeInput) =>
        /\ a_result["api"].status = "returned"
        /\ DOMAIN Quota("api") = Range(a_items)
        /\ (a_selected = NoneId /\ Len(a_items) >= 1)
              => SumQuota(Quota("api")) = a_budget

C6_Witness ==
    /\ AllocDone("api")
    /\ a_budget = -1
    /\ a_selected = NoneId
    /\ Len(a_items) = 2
    /\ \E k \in DOMAIN Quota("api") : Quota("api")[k] < 0
(***************************************************************************)
(* Properties of the eligibility filter (checked under FilterSpec).        *)
(***************************************************************************)
\* name has word w somewhere, each letter in either case
HasWordAnyCase(name, w) ==
    \E i \in 1..(Len(name) - Len(w) + 1) :
        \A j \in 1..Len(w) :
            name[i + j - 1] = w[j] \/ name[i + j - 1] = upper_char(w[j])
\* caste context is the word general, each letter in either case
IsGeneral(caste) ==
    /\ caste.t = "str"
    /\ Len(caste.s) = Len(W_general)
    /\ HasWordAnyCase(caste.s, W_general)
\* caste contexts of the declared type Optional[str]
OptionalStr(caste) == caste.t \in {"NoneType", "str"}

\* C7 (as claimed): every non-string input and the empty string are
\* ineligible, whatever the caste context (API and frontend copy).
C7_NonStringOrEmptyIneligible ==
    \A c \in {"api", "st_phone"} :
        (f_result[c] /= "unset"
            /\ (~isinstance_str(f_service) \/ f_service = Str(<<>>)))
          => f_result[c] = "False"

\* C7 (amended): every input that is not a string is ineligible, whatever
\* the caste context; the empty string is not rejected: it is eligible for
\* every absent or string caste context.
C7_NonStringIneligibleEmptyEligible ==
    \A c \in {"api", "st_phone"} :
        f_result[c] /= "unset" =>
            /\ ~isinstance_str(f_service) => f_result[c] = "False"
            /\ (f_service = Str(<<>>) /\ OptionalStr(f_caste))
                  => f_result[c] = "True"

C7_Witness ==
    /\ f_service = PyNaN
    /\ f_caste = Str(C_General)
    /\ f_result["api"] = "False"
    /\ f_result["st_phone"] = "False"

C7_WitnessEmpty ==
    /\ f_service = Str(<<>>)
    /\ f_caste = Str(C_General)
    /\ f_result["api"] = "True"

\* C8: a name with "birth" or "death" as a substring in any letter case is
\* ineligible for every caste context, an absent one included;
\* "Birth Certificate Issuance" is such a name.
C8_BirthDeathIneligible ==
    (f_result["api"] /= "unset" /\ isinstance_str(f_service)
        /\ (HasWordAnyCase(f_service.s, W_birth)
              \/ HasWordAnyCase(f_service.s, W_death)))
      => f_result["api"] = "False"

C8_Witness ==
    /\ f_service = Str(N_BirthCertificateIssuance)
    /\ f_caste = PyNone
    /\ f_result["api"] = "False"

\* C9: a name with "caste" in any letter case and neither "birth" nor
\* "death" is ineligible exactly when the caste context is present and
\* equals "general" case-insensitively, and eligible for any other string
\* or an absent context; "SC/ST Caste Certificate" is ineligible for
\* "General" and eligible for "SC".
C9_CasteOnlyForGeneral ==
    (f_result["api"] /= "unset" /\ isinstance_str(f_service)
        /\ OptionalStr(f_caste)
        /\ HasWordAnyCase(f_service.s, W_caste)
        /\ ~HasWordAnyCase(f_service.s, W_birth)
        /\ ~HasWordAnyCase(f_service.s, W_death))
      => /\ f_result["api"] = (IF IsGeneral(f_caste) THEN "False" ELSE "True")
         /\ (f_service = Str(N_ScStCasteCertificate) /\ f_caste = Str(C_General))
               => f_result["api"] = "False"
         /\ (f_service = Str(N_ScStCasteCertificate) /\ f_caste = Str(C_SC))
               => f_result["api"] = "True"

C9_Witness ==
    /\ f_service = Str(N_ScStCasteCertificate)
    /\ f_caste = Str(C_General)
    /\ f_result["api"] = "False"

C9_WitnessSC ==
    /\ f_service = Str(N_ScStCasteCertificate)
    /\ f_caste = Str(C_SC)
    /\ f_result["api"] = "True"
(***************************************************************************)
(* Properties of the handlers (checked under Spec).                        *)
(***************************************************************************)
ManualFlows == {"manual", "st_manual"}
BundleReturned == pc = "done" /\ response = "bundle"

\* C5 (as claimed): in the manual-entry flow, where the selected service is
\* the sole anchor, at most 3 content-based recommendations are requested
\* for it and returned under it, never 5.
C5_ManualAtMostThree ==
    (BundleReturned /\ flow \in ManualFlows) =>
        /\ \A i \in 1..Len(content_calls) : content_calls[i].n <= 3
        /\ \A k \in DOMAIN content_recs : Len(content_recs[k]) <= 3

\* C5 (amended): in the manual-entry flow the selected service, when its id
\* is not 0, is the sole anchor and exactly 5 content-based recommendations
\* are requested for it, not 3; the list returned under it holds the
\* eligible names of what the lookup returned and can hold more than 3.  A
\* selected id of 0 triggers no lookup.
C5_ManualRequestsFive ==
    (BundleReturned /\ flow \in ManualFlows) =>
        /\ truthy_id(selected_service_id) =>
              /\ content_calls = <<[sid |-> selected_service_id, n |-> 5]>>
              /\ \A k \in DOMAIN content_recs :
                    Len(content_recs[k])
                        <= Len(content_raw[selected_service_id].val)
        /\ ~truthy_id(selected_service_id) =>
              content_calls = <<>> /\ content_recs = EmptyDict

C5_Witness ==
    /\ BundleReturned /\ flow = "manual"
    /\ content_calls = <<[sid |-> 1, n |-> 5]>>
    /\ \E k \in DOMAIN content_recs : Len(content_recs[k]) > 3

\* C10: in every bundle returned by either flow, every name of the district
\* list, of the demographic list and of every list of the content map is a
\* string the eligibility filter accepts for the caste of the profile.
C10_BundleOnlyEligible ==
    BundleReturned =>
        LET Accepted(list) ==
                \A i \in 1..Len(list) :
                    /\ isinstance_str(list[i])
                    /\ block_service(list[i], user_caste) = "True"
        IN  /\ Accepted(district_recs)
            /\ Accepted(demo_recs)
            /\ \A k \in DOMAIN content_recs : Accepted(content_recs[k])

C10_Witness ==
    /\ BundleReturned /\ flow = "phone"
    /\ user_caste = Str(C_General)
    /\ district_raw = Ok(R_long) /\ Len(district_recs) = 5
    /\ demo_raw = Ok(R_mixed) /\ Len(demo_recs) = 1
    /\ \E sid \in DOMAIN content_raw : content_raw[sid] = Ok(R_long)
    /\ content_recs /= EmptyDict
ApiFlows == {"phone", "manual"}
RequestOver == pc = "done"
SomeContentRaised == \E sid \in DOMAIN content_raw : content_raw[sid] = Raised

\* C11 (as claimed): for every combination of strategy failures (district,
\* cluster and content lookup each succeeding or raising) the call returns
\* a complete bundle and the failure is never surfaced as a failure of the
\* request.  The profile here has a usable caste, so that the only thing
\* that fails is a strategy.
C11_AlwaysBundle ==
    (RequestOver /\ flow \in ApiFlows /\ user_caste /= PyNaN
        /\ (district_raw = Raised \/ demo_raw = Raised \/ SomeContentRaised))
      => response = "bundle"

\* What does hold: a failure of the cluster or of the content lookup never
\* fails the request.
C11_HoldsWhenDistrictSucceeds ==
    (RequestOver /\ flow \in ApiFlows /\ district_raw.st = "ok"
        /\ user_caste /= PyNaN)
      => response = "bundle"
\* a string with neither "birth" nor "death" in any letter case and, for a
\* caste context that is "general" in any letter case, without "caste"
EligibleName(s, caste) ==
    /\ isinstance_str(s)
    /\ ~HasWordAnyCase(s.s, W_birth)
    /\ ~HasWordAnyCase(s.s, W_death)
    /\ ~(IsGeneral(caste) /\ HasWordAnyCase(s.s, W_caste))
EligibleSubseq(list, caste) == SelectSeq(list, LAMBDA s : EligibleName(s, caste))

\* the anchors the content lookups of the request are made for
AnchorsOf ==
    IF flow = "manual"
    THEN (IF truthy_id(selected_service_id)
          THEN <<selected_service_id>> ELSE <<>>)
    ELSE item_service_ids
KeyOf(sid) ==
    IF sid \in DOMAIN service_id_to_name
    THEN service_id_to_name[sid] ELSE ServiceLabel(sid)
\* what the handler makes of a list a lookup returned, when no lookup fails
FilteredAsIfNoFailure(list) ==
    LET filtered == filter_checked(list, user_caste, flow)
    IN  IF filtered.st = "raise" THEN <<>> ELSE filtered.val
\* the content map the lookups that did not fail give, anchor by anchor
RECURSIVE ContentOfSucceeded(_)
ContentOfSucceeded(i) ==
    IF i = 0 THEN EmptyDict
    ELSE LET sid == AnchorsOf[i]
             prev == ContentOfSucceeded(i - 1)
         IN  IF sid \in DOMAIN content_raw /\ content_raw[sid].st = "ok"
                /\ FilteredAsIfNoFailure(content_raw[sid].val) /= <<>>
             THEN DictSet(prev, KeyOf(sid),
                          FilteredAsIfNoFailure(content_raw[sid].val))
             ELSE prev
DistrictAsIfNoFailure ==
    Take(filter_plain(district_raw.val, user_caste, flow).val, TopN)
DemoAsIfNoFailure == FilteredAsIfNoFailure(demo_raw.val)

\* C12 (as claimed): a failure of the cluster lookup makes the demographic
\* list empty and a failure of the content lookup makes the content section
\* empty, while the district list and the other section are what they would
\* be had nothing failed.
C12_FailureEmptiesSection ==
    (BundleReturned /\ flow \in ApiFlows) =>
        /\ demo_raw = Raised => demo_recs = <<>>
        /\ SomeContentRaised => content_recs = EmptyDict
        /\ district_recs = DistrictAsIfNoFailure
        /\ demo_raw.st = "ok" => demo_recs = DemoAsIfNoFailure
        /\ ~SomeContentRaised => content_recs = ContentOfSucceeded(Len(AnchorsOf))

\* C12 (amended): a failure of the cluster lookup makes the demographic list
\* empty; a failing content lookup loses the entry of the anchor it was made
\* for and nothing else, so the content section is empty when every lookup
\* of the request fails and keeps the entries of the anchors whose lookup
\* succeeded otherwise; the district list and the non-failing section are
\* what they would be had nothing failed.
C12_FailureIsolatedPerLookup ==
    (BundleReturned /\ flow \in ApiFlows) =>
        /\ demo_raw = Raised => demo_recs = <<>>
        /\ (\A sid \in DOMAIN content_raw : content_raw[sid] = Raised)
              => content_recs = EmptyDict
        /\ district_recs = DistrictAsIfNoFailure
        /\ demo_raw.st = "ok" => demo_recs = DemoAsIfNoFailure
        /\ content_recs = ContentOfSucceeded(Len(AnchorsOf))

C12_Witness ==
    /\ BundleReturned /\ flow = "phone"
    /\ demo_raw = Raised /\ demo_recs = <<>>
    /\ district_raw = Ok(R_long) /\ Len(district_recs) = 5
    /\ Len(item_service_ids) = 2
    /\ content_raw[item_service_ids[1]] = Raised
    /\ content_raw[item_service_ids[2]] = Ok(R_long)
    /\ content_recs /= EmptyDict

C12_WitnessAllFailed ==
    /\ BundleReturned /\ flow = "phone"
    /\ demo_raw = Ok(R_mixed) /\ demo_recs /= <<>>
    /\ Len(item_service_ids) = 2
    /\ \A sid \in Range(item_service_ids) :
          sid \in DOMAIN content_raw /\ content_raw[sid] = Raised
    /\ content_recs = EmptyDict
\* C13 (as claimed): the by-phone call never fails because an attribute of
\* the profile (district, caste, ...) is missing: whenever the citizen is
\* found and the district lookup itself does not raise, a bundle is
\* returned, the filter running with an absent caste.
C13_MissingAttributeTolerated ==
    (RequestOver /\ flow = "phone" /\ response /= "http404"
        /\ district_raw /= Raised)
      => response = "bundle"

\* What does hold: a caste that is None (no such column) is tolerated.
C13_HoldsForNoneCaste ==
    (RequestOver /\ flow = "phone" /\ response /= "http404"
        /\ district_raw.st = "ok" /\ user_caste = PyNone)
      => response = "bundle"

\* C14 (as claimed): the anchor sequence is the used ids in their order,
\* followed by the selected id exactly when it is not null and not among the
\* used ids; it has no duplicates and every non-null selected id, 0
\* included, is a member of it.
C14_AnchorsUsedThenSelected ==
    (flow = "phone" /\ response /= "http404") =>
        /\ item_service_ids =
               used_service_ids \o
                   (IF selected_service_id /= NoneId
                       /\ selected_service_id \notin Range(used_service_ids)
                    THEN <<selected_service_id>> ELSE <<>>)
        /\ \A i, j \in 1..Len(item_service_ids) :
               item_service_ids[i] = item_service_ids[j] => i = j
        /\ selected_service_id /= NoneId
               => selected_service_id \in Range(item_service_ids)

\* The same statement for a selected id that Python treats as true (any id
\* but 0) does hold.
C14_HoldsForNonZeroSelected ==
    selected_service_id /= 0 => C14_AnchorsUsedThenSelected
DistrictAnswered == pc \in {"demo", "content", "done"} /\ district_raw.st = "ok"
                        /\ response /= "http500"

\* C15: the district list is the first 5 eligible names of the sequence the
\* district lookup returned, in the order of the lookup: the filter runs
\* before the truncation, the list never has more than 5 entries and an
\* ineligible name never takes one of the 5 places.
C15_FirstFiveEligible ==
    (DistrictAnswered /\ flow \in ApiFlows) =>
        LET eligible == EligibleSubseq(district_raw.val, user_caste)
        IN  /\ Len(district_recs) <= 5
            /\ Len(district_recs) = min(5, Len(eligible))
            /\ \A i \in 1..Len(district_recs) : district_recs[i] = eligible[i]

C15_Witness ==
    /\ DistrictAnswered /\ flow = "phone"
    /\ user_caste = Str(C_General)
    /\ district_raw = Ok(R_long)
    /\ district_recs = <<P1, P2, P3, P4, P5>>
\* what the content lookup returned for anchor sid (nothing when it was not
\* made or raised)
ReturnedFor(sid) ==
    IF sid \in DOMAIN content_raw THEN content_raw[sid].val ELSE <<>>
DistinctKeys ==
    \A i, j \in 1..Len(AnchorsOf) :
        KeyOf(AnchorsOf[i]) = KeyOf(AnchorsOf[j]) => i = j

\* C16 (as claimed): for every anchor that has an entry in the content map,
\* the list of the entry is exactly the eligible names of what the content
\* lookup returned for that anchor, in the same order, never padded or
\* substituted; an anchor whose filtered result is empty has no entry, so
\* the map holds no empty list; with one anchor and no primary the quota of
\* the anchor is 5 and its list has as many names as the lookup returned
\* eligible ones.
C16_EntryIsEligibleSubsequence ==
    (BundleReturned /\ flow \in ApiFlows) =>
        /\ \A i \in 1..Len(AnchorsOf) :
              KeyOf(AnchorsOf[i]) \in DOMAIN content_recs =>
                  content_recs[KeyOf(AnchorsOf[i])]
                      = EligibleSubseq(ReturnedFor(AnchorsOf[i]), user_caste)
        /\ \A k \in DOMAIN content_recs : content_recs[k] /= <<>>
        /\ (flow = "phone" /\ Len(item_service_ids) = 1
                /\ selected_service_id = NoneId) =>
              LET sid == item_service_ids[1]
                  eligible == EligibleSubseq(ReturnedFor(sid), user_caste)
              IN  /\ recs[sid] = 5
                  /\ eligible /= <<>> =>
                        /\ KeyOf(sid) \in DOMAIN content_recs
                        /\ Len(content_recs[KeyOf(sid)]) = Len(eligible)

\* The same statement does hold when no two anchors have the same display
\* name and the caste of the profile is None or a string.
C16_HoldsForDistinctNames ==
    (DistinctKeys /\ OptionalStr(user_caste)) => C16_EntryIsEligibleSubsequence
(***************************************************************************)
(* Properties of the list filters (checked under ListSpec).                *)
(***************************************************************************)
\* C18: filtering is idempotent: for every list and every caste context,
\* filtering a list that was already filtered with that caste gives the same
\* list again.
C18_FilterIdempotent ==
    l_twice /= NotCalled => l_twice = l_once

C18_Witness ==
    /\ l_kind = "plain"
    /\ l_caste = Str(C_General)
    /\ l_list = <<Str(N_BirthCertificateIssuance), Str(N_ScStCasteCertificate),
                  Str(N_IncomeCertificate)>>
    /\ l_once = Ok(<<Str(N_IncomeCertificate)>>)
    /\ l_twice = l_once
(***************************************************************************)
(* More properties of the handlers (checked under Spec).                   *)
(***************************************************************************)
\* C19: when the anchor sequence is empty (no used service and no selected
\* service) the quota mapping is empty, the content lookup is never made,
\* the content map is empty and the cluster lookup is made with no
\* searched-service hint.
C19_NoAnchors ==
    (flow = "phone" /\ response /= "http404" /\ item_service_ids = <<>>) =>
        /\ recs = EmptyDict
        /\ content_calls = <<>>
        /\ content_raw = EmptyDict
        /\ content_recs = EmptyDict
        /\ searched_service_name = NoName

C19_Witness ==
    /\ BundleReturned /\ flow = "phone"
    /\ used_service_ids = <<>> /\ selected_service_id = NoneId
    /\ item_service_ids = <<>>
    /\ demo_raw = Ok(R_mixed)
    /\ searched_service_name = NoName
    /\ content_calls = <<>> /\ content_recs = EmptyDict
\* the anchors the content loop has gone through so far
Processed == SubSeq(item_service_ids, 1, min(loop_i - 1, Len(item_service_ids)))
\* the lookups the quotas call for, in the order of the anchors
RECURSIVE CallsFor(_)
CallsFor(anchors) ==
    IF anchors = <<>> THEN <<>>
    ELSE LET sid == anchors[Len(anchors)]
             before == CallsFor(SubSeq(anchors, 1, Len(anchors) - 1))
         IN  IF recs[sid] > 0
             THEN Append(before, [sid |-> sid, n |-> recs[sid]])
             ELSE before

\* C20 (as claimed): the content lookup is made for an anchor only when the
\* quota of the anchor is greater than 0, and then with the id of the anchor
\* and its quota as the count; an anchor with quota 0 never triggers a
\* lookup and never appears in the content map.
C20_LookupOnlyForPositiveQuota ==
    (flow = "phone" /\ pc \in {"content", "done"} /\ response /= "http500") =>
        /\ content_calls = CallsFor(Processed)
        /\ \A i \in 1..Len(content_calls) :
              /\ content_calls[i].sid \in Range(item_service_ids)
              /\ recs[content_calls[i].sid] > 0
              /\ content_calls[i].n = recs[content_calls[i].sid]
        /\ \A sid \in Range(item_service_ids) :
              recs[sid] = 0 =>
                  /\ \A i \in 1..Len(content_calls) : content_calls[i].sid /= sid
                  /\ sid \notin DOMAIN content_raw
                  /\ KeyOf(sid) \notin DOMAIN content_recs

\* The same statement does hold when no two anchors have the same display
\* name.
C20_HoldsForDistinctNames ==
    DistinctKeys => C20_LookupOnlyForPositiveQuota

C20_ZeroQuotaReached ==
    /\ BundleReturned /\ flow = "phone"
    /\ Len(item_service_ids) = 4
    /\ recs[item_service_ids[3]] = 0
    /\ Len(content_calls) = 3
    /\ DistinctKeys
ClusterCalled == demo_raw /= NotCalled

\* C21: the searched-service hint handed to the cluster lookup is the name
\* of the first anchor: the name of the citizen's own history when the id of
\* the first anchor occurs there, otherwise the name of the service-name
\* index when the index knows the id, otherwise no hint; an id that cannot
\* be resolved gives no hint and no error.
C21_HintIsFirstAnchorName ==
    (flow = "phone" /\ ClusterCalled) =>
        /\ response /= "http500"
        /\ item_service_ids = <<>> => searched_service_name = NoName
        /\ item_service_ids /= <<>> =>
              LET first_sid == item_service_ids[1]
              IN  /\ first_sid \in Range(used_service_ids)
                        => searched_service_name = HistoryName(first_sid)
                  /\ (first_sid \notin Range(used_service_ids)
                        /\ first_sid \in DOMAIN service_id_to_name)
                        => searched_service_name = service_id_to_name[first_sid]
                  /\ (first_sid \notin Range(used_service_ids)
                        /\ first_sid \notin DOMAIN service_id_to_name)
                        => searched_service_name = NoName

C21_Witness ==
    /\ BundleReturned /\ flow = "phone"
    /\ used_service_ids = <<>> /\ selected_service_id = 1
    /\ searched_service_name = Name("Income Certificate")

C21_WitnessHistory ==
    /\ BundleReturned /\ flow = "phone"
    /\ used_service_ids = <<1, 2>> /\ selected_service_id = 2
    /\ 1 \in DOMAIN service_id_to_name
    /\ searched_service_name = HistoryName(1)

C21_WitnessNoHint ==
    /\ BundleReturned /\ flow = "phone"
    /\ item_service_ids = <<NegId>>
    /\ searched_service_name = NoName
\* the anchors whose lookup returned a list of which something is left
\* after filtering
AnchorsWithResult ==
    {sid \in Range(AnchorsOf) :
        /\ sid \in DOMAIN content_raw
        /\ content_raw[sid].st = "ok"
        /\ FilteredAsIfNoFailure(content_raw[sid].val) /= <<>>}
\* the name the frontend puts over a list in its by-phone branch
HeadingOf(sid) ==
    IF sid \in Range(used_service_ids) THEN HistoryName(sid) ELSE MasterName(sid)

\* C22 (as claimed): the key under which the similar services of an anchor
\* are placed is the name the service-name index has for the anchor, and
\* the label "Service {id}" when the index has no name for the id; an id
\* the index does not know never loses the entry of the anchor (API flows
\* and by-phone branch of the frontend).
C22_KeyIsIndexNameOrLabel ==
    (BundleReturned /\ flow \in {"phone", "manual", "st_phone"}) =>
        DOMAIN content_recs = {KeyOf(sid) : sid \in AnchorsWithResult}

\* C22 (amended): in both API flows the key is the name the service-name
\* index has for the anchor, and the label "Service {id}" when the index
\* has none, so an unknown id never loses the entry; in the by-phone branch
\* of the frontend the list is put under the name of the citizen's history
\* row when the anchor is in the history and under the services.csv name of
\* the selected service otherwise, and no label is built.
C22_KeyByFlow ==
    BundleReturned =>
        /\ flow \in ApiFlows =>
              DOMAIN content_recs = {KeyOf(sid) : sid \in AnchorsWithResult}
        /\ flow = "st_phone" =>
              DOMAIN content_recs = {HeadingOf(sid) : sid \in AnchorsWithResult}

C22_Witness ==
    /\ BundleReturned /\ flow = "phone"
    /\ item_service_ids = <<1, NegId>>
    /\ DOMAIN content_recs = {Name("Income Certificate"), ServiceLabel(NegId)}

C22_WitnessFrontend ==
    /\ BundleReturned /\ flow = "st_phone"
    /\ item_service_ids = <<1, 2>>
    /\ DOMAIN content_recs = {HistoryName(1), MasterName(2)}
\* each section of the answer, as the lookup of that section alone gives it
SectionsFromOwnLookup ==
    /\ district_raw.st = "ok" => district_recs = DistrictAsIfNoFailure
    /\ demo_recs = (IF demo_raw.st = "ok" THEN DemoAsIfNoFailure ELSE <<>>)
    /\ content_recs = ContentOfSucceeded(Len(AnchorsOf))

\* C23 (as claimed): the three lookups of one recommendation are
\* independent: the outcome of one of them, result or failure, never changes
\* what the two other sections contain, so every lookup is made whatever
\* the others do and every section is what its own lookup gives.
C23_StrategiesIndependent ==
    (RequestOver /\ flow \in ApiFlows /\ OptionalStr(user_caste)
        /\ district_raw /= NotCalled) =>
        /\ ClusterCalled
        /\ flow = "phone" => content_calls = CallsFor(item_service_ids)
        /\ flow = "manual" =>
              Len(content_calls) = Len(AnchorsOf)
        /\ SectionsFromOwnLookup

\* What does hold: when the district lookup succeeds, the two other lookups
\* are made and every section is what its own lookup gives, whatever the
\* outcome of the others.
C23_HoldsWhenDistrictSucceeds ==
    district_raw.st = "ok" => C23_StrategiesIndependent
RECURSIVE NamesIn(_, _)
NamesIn(d, keys) ==
    IF keys = {} THEN 0
    ELSE LET k == CHOOSE x \in keys : TRUE
         IN  Len(d[k]) + NamesIn(d, keys \ {k})
\* every lookup returned at most as many names as it was asked for
WithinRequestedCount ==
    \A i \in 1..Len(content_calls) :
        Len(content_raw[content_calls[i].sid].val) <= content_calls[i].n

\* C25 (as claimed): in the by-citizen flow the content map has exactly one
\* entry for each anchor with a positive quota whose lookup succeeds and
\* whose filtered result is not empty: two distinct anchors never share a
\* key, no list is overwritten by the list of another anchor, and the
\* number of names over all lists is at most 5 when every lookup returns at
\* most the count it was asked for.
C25_OneEntryPerAnchor ==
    (BundleReturned /\ flow = "phone") =>
        /\ DistinctKeys
        /\ Cardinality(DOMAIN content_recs) = Cardinality(AnchorsWithResult)
        /\ \A sid \in AnchorsWithResult :
              /\ KeyOf(sid) \in DOMAIN content_recs
              /\ content_recs[KeyOf(sid)]
                     = FilteredAsIfNoFailure(content_raw[sid].val)
        /\ WithinRequestedCount
              => NamesIn(content_recs, DOMAIN content_recs) <= max_total_recs

\* The same statement does hold for the requests whose anchors have
\* pairwise different display names.
C25_HoldsForDistinctNames ==
    DistinctKeys => C25_OneEntryPerAnchor

C25_OverwriteReached ==
    /\ BundleReturned /\ flow = "phone"
    /\ item_service_ids = <<0, 1>>
    /\ KeyOf(0) = KeyOf(1)
    /\ content_raw[0] = Ok(R_long) /\ content_raw[1] = Ok(R_long)
    /\ Cardinality(DOMAIN content_recs) = 1

(***************************************************************************)
(* C26: the three copies of block_service agree.  For every service value, *)
(* str or not, and every caste that is None, the empty string, "general"   *)
(* in any letter case or any other str, the copy of the API, the copy of   *)
(* the by-phone branch of the frontend and the copy of its manual-entry    *)
(* branch return the same boolean.                                         *)
(***************************************************************************)
C26_CopiesAgree ==
    ((\A c \in FilterCopies : f_result[c] /= "unset") /\ OptionalStr(f_caste))
      => /\ f_result["api"] \in {"True", "False"}
         /\ f_result["st_phone"] = f_result["api"]
         /\ f_result["st_manual"] = f_result["api"]

\* The empty caste on a name that holds "caste": the truthiness guard of
\* the API and the `is not None` guard of the frontend take different
\* branches and still give the same boolean.
C26_Witness ==
    /\ f_service = Str(N_ScStCasteCertificate)
    /\ f_caste = Str(<<>>)
    /\ \A c \in FilterCopies : f_result[c] = "True"

C26_WitnessGeneral ==
    /\ f_service = Str(N_ScStCasteCertificate)
    /\ f_caste \in {Str(g) : g \in CaseVariants(W_general)}
    /\ f_caste /= Str(W_general)
    /\ \A c \in FilterCopies : f_result[c] = "False"

C26_WitnessNonString ==
    /\ f_service = PyInt
    /\ f_caste = PyNone
    /\ \A c \in FilterCopies : f_result[c] = "False"

====
